---- MODULE Spec2Model ----
(***************************************************************************)
(* cesium-allocator: the AllocatorPool (src/src/lib.rs), the Allocator     *)
(* handle (src/src/allocator.rs) and the part of the mimalloc engine they  *)
(* call (src/libmimalloc-sys/src/heap.rs).                                 *)
(*                                                                         *)
(* The pool's ids are u32.  The model keeps the arithmetic of the code     *)
(* (lowest_id + 1 in a fixed-width unsigned integer) and scales the width  *)
(* down to IdBits bits, so that the counter's maximum is reachable.        *)
(* `lowest_id + 1` at the maximum is build dependent in Rust: it panics    *)
(* when overflow checks are compiled in (the dev profile) and wraps to 0   *)
(* when they are not (the release profile).  Both builds are modelled.     *)
(***************************************************************************)
EXTENDS Integers, Sequences, FiniteSets, TLC

\* ------------------------------------------------------------------ bounds
\* Width, in bits, of the model's id type (u32 in the source).
IdBits == 2
\* Calls of mi_heap_new that a run makes at most (more than 2^IdBits, so
\* that the counter passes its maximum).
MaxMints == 5
\* Arc<Allocator> handles the callers hold at the same time, at most.
MaxHandles == 2
\* Failures (null results) of mi_heap_new in a run, at most.
MaxEngineFail == 2
\* Addresses of the engine's memory.
MaxAddrs == 2
\* The bytes a caller asks for in an allocation, and in a re-allocation.
AllocSize == 1
GrownSize == 2
\* Threads that call Allocator::default().
NThreads == 2
MaxOptionValue == 2

IdModulus == 2 ^ IdBits
IdMax == IdModulus - 1
Ids == 0 .. IdMax

\* ------------------------------------------------------------------- state
VARIABLES
    overflow_checks, \* the build: TRUE = integer overflow panics
    pool_alive,      \* the AllocatorPool has not been dropped
    lowest_id,       \* AllocatorPool.lowest_id
    heaps,           \* AllocatorPool.heaps: id -> Arc<Allocator> (index in arcs)
    arcs,            \* every Arc<Allocator> allocated so far, in order:
                     \*   [id, heap] the Allocator, strong the Arc's count
    held,            \* held[a]: handles to arcs[a] in the callers' hands
    engine_calls,    \* calls of mi_heap_new so far
    engine_heaps,    \* heaps the engine has created so far
    live_heaps,      \* the heaps alive in the engine (created, not deleted)
    ecalls,          \* the engine calls the last operation made, in order
    locals,          \* Allocators the callers built (Allocator::new, ::default)
    blocks,          \* the engine's memory: address -> block, or FreeBlock
    only_new,        \* every pool call so far was a new_allocator call
    op,              \* the last operation and its arguments
    ret,             \* what it returned
    mem,             \* the bytes at each address: zero, data, or zeroed
    options,         \* the engine's runtime options: value, initialised
    frames           \* per thread: the new_allocator call it is running
                     \*   unserialised, if any (pc, its heap, its id, its Arc)

vars == <<overflow_checks, pool_alive, lowest_id, heaps, arcs, held,
          engine_calls, engine_heaps, live_heaps, ecalls, locals, blocks,
          only_new, op, ret, mem, options, frames>>

\* ------------------------------------------------------------ heap handles
NullHeap == [kind |-> "null", n |-> 0]
NoHeap == [kind |-> "none", n |-> 0]
Threads == 1 .. NThreads
\* mi_heap_get_default: the default heap of the calling thread.
mi_heap_get_default(t) == [kind |-> "default", n |-> t]
HeapHandle(k) == [kind |-> "heap", n |-> k]

\* ----------------------------------------------------- the engine's memory
\* Addresses the engine hands out; 0 is the null pointer.
Addrs == 1 .. MaxAddrs
NullPtr == 0
FreeBlock == [heap |-> NullHeap, size |-> 0]

\* mi_heap_new: a fresh heap, or null when the engine cannot allocate one.
mi_heap_new ==
    {HeapHandle(engine_heaps + 1)}
        \cup (IF engine_calls - engine_heaps < MaxEngineFail
              THEN {NullHeap} ELSE {})

\* The record of one engine call: the function, its arguments, its result.
MiHeapNewCall(result) == [fn |-> "mi_heap_new", result |-> result]

\* ------------------------------------------------------------- the results
RetUnit == [kind |-> "unit", arc |-> 0]
RetNone == [kind |-> "none", arc |-> 0]
RetPanic == [kind |-> "panic", arc |-> 0]
RetSome(a) == [kind |-> "some", arc |-> a]

Creates == {"None", "SomeTrue", "SomeFalse"}
Call(name, id, create) == [name |-> name, id |-> id, create |-> create]

\* --------------------------------------------------------------- Allocator
AllocatorNew(id, heap) == [id |-> id, heap |-> heap]

\* --------------------------------------------------------------------- Arc
\* Arc::new: a new shared object with a strong count of 1.
ArcNew(s, alloc) == Append(s, [id |-> alloc.id, heap |-> alloc.heap, strong |-> 1])

\* Arc::clone with the count left as it was (a second owner that is not counted).
ArcCloneNoCount(s, a) == s

\* Arc::clone: one more owner.
ArcClone(s, a) == [s EXCEPT ![a].strong = @ + 1]

\* Drop of an Arc: one owner less; the Allocator is torn down at 0.
ArcDrop(s, a) == [s EXCEPT ![a].strong = @ - 1]

RECURSIVE ArcDropAll(_, _)
ArcDropAll(s, as) ==
    IF as = {} THEN s
    ELSE LET a == CHOOSE x \in as : TRUE
         IN ArcDropAll(ArcDrop(s, a), as \ {a})

TornDown(a) == arcs[a].strong = 0

\* The Allocators whose last owner went between the Arc states s and t.
TornDownBetween(s, t) ==
    {AllocatorNew(t[a].id, t[a].heap) :
        a \in {x \in 1 .. Len(s) : s[x].strong > 0 /\ t[x].strong = 0}}

\* An Allocator that deletes its heap when it is dropped.
AllocatorDropDeletesHeap(live, alloc) == live \ {alloc.heap}

\* Drop of an Allocator: the struct has no Drop impl, and a raw pointer has no
\* destructor, so the heap is left as it is.
AllocatorDrop(live, alloc) == live

RECURSIVE AllocatorDropAll(_, _)
AllocatorDropAll(live, allocs) ==
    IF allocs = {} THEN live
    ELSE LET x == CHOOSE y \in allocs : TRUE
         IN AllocatorDropAll(AllocatorDrop(live, x), allocs \ {x})

\* ---------------------------------------------------------------- BTreeMap
EmptyMap == [k \in {} |-> 0]
MapInsert(m, k, v) == [x \in DOMAIN m \cup {k} |-> IF x = k THEN v ELSE m[x]]
\* BTreeMap::insert returns the value it replaced, which is dropped.
MapReplaced(m, k) == IF k \in DOMAIN m THEN {m[k]} ELSE {}
MapValues(m) == {m[k] : k \in DOMAIN m}

\* ----------------------------------------------------------- AllocatorPool
\* lowest_id + 1 in the id type, overflow checks off.
WrappingAdd(x, y) == (x + y) % IdModulus
Overflows(x, y) == x + y > IdMax

HandlesHeld == LET RECURSIVE Sum(_)
                   Sum(i) == IF i = 0 THEN 0 ELSE held[i] + Sum(i - 1)
               IN Sum(Len(held))

\* AllocatorPool::new_allocator, `heap` being what mi_heap_new returns.
new_allocator(heap) ==
    /\ engine_calls < MaxMints
    /\ engine_calls' = engine_calls + 1
    /\ engine_heaps' = IF heap = NullHeap THEN engine_heaps ELSE engine_heaps + 1
    /\ ecalls' = <<MiHeapNewCall(heap)>>
    /\ UNCHANGED <<locals, blocks, mem, options>>
    /\ IF overflow_checks /\ Overflows(lowest_id, 1)
       THEN /\ ret' = RetPanic
            /\ live_heaps' = live_heaps \cup ({heap} \ {NullHeap})
            /\ UNCHANGED <<lowest_id, heaps, arcs, held>>
       ELSE LET id == WrappingAdd(lowest_id, 1)
                a == Len(arcs) + 1
                created == ArcClone(ArcNew(arcs, AllocatorNew(id, heap)), a)
            IN /\ lowest_id' = id
               /\ heaps' = MapInsert(heaps, id, a)
               /\ arcs' = ArcDropAll(created, MapReplaced(heaps, id))
               /\ live_heaps' = AllocatorDropAll(live_heaps \cup ({heap} \ {NullHeap}),
                                                 TornDownBetween(created, arcs'))
               /\ held' = Append(held, 1)
               /\ ret' = RetSome(a)

\* get_allocator creating on every miss, a miss with create = None included.
get_allocator_CreateOnAnyMiss(id, create, heap) ==
    IF id \in DOMAIN heaps
    THEN /\ arcs' = ArcClone(arcs, heaps[id])
         /\ held' = [held EXCEPT ![heaps[id]] = @ + 1]
         /\ ret' = RetSome(heaps[id])
         /\ ecalls' = <<>>
         /\ UNCHANGED <<lowest_id, heaps, engine_calls, engine_heaps, live_heaps,
                        locals, blocks, mem, options>>
    ELSE new_allocator(heap)

\* AllocatorPool::get_allocator: `create` is matched as None or Some(v), and
\* v is not looked at.
get_allocator(id, create, heap) ==
    IF id \in DOMAIN heaps
    THEN /\ arcs' = ArcClone(arcs, heaps[id])
         /\ held' = [held EXCEPT ![heaps[id]] = @ + 1]
         /\ ret' = RetSome(heaps[id])
         /\ ecalls' = <<>>
         /\ UNCHANGED <<lowest_id, heaps, engine_calls, engine_heaps, live_heaps,
                        locals, blocks, mem, options>>
    ELSE IF create = "None"
         THEN /\ ret' = RetNone
              /\ ecalls' = <<>>
              /\ UNCHANGED <<lowest_id, heaps, arcs, held, engine_calls, engine_heaps,
                             live_heaps, locals, blocks, mem, options>>
         ELSE new_allocator(heap)


\* ----------------------------------------------------- the runtime options
mi_option_show_errors == 0
mi_option_show_stats == 1
mi_option_verbose == 2
Options == {mi_option_show_errors, mi_option_show_stats, mi_option_verbose}
OptionValues == 0 .. MaxOptionValue
\* All options are false by default, and not initialised.
UnsetOption == [value |-> 0, init |-> FALSE]

\* mi_option_get: the value stored for the option.
mi_option_get(o) == options[o].value
\* A set that stores the value for every option.
mi_option_set_All(o, v) == [x \in Options |-> [value |-> v, init |-> TRUE]]
\* mi_option_set: the option gets the value and counts as initialised.
mi_option_set(o, v) == [options EXCEPT ![o] = [value |-> v, init |-> TRUE]]
LongResult(v) == [kind |-> "long", v |-> v]

\* ------------------------------------------------------- Allocator methods
AllocMethods == {"malloc", "zalloc", "calloc", "mallocn", "malloc_small"}
ReallocMethods == {"realloc", "reallocn", "reallocf", "rezalloc"}
QueryMethods == {"contains_block", "check_owned"}
Methods == AllocMethods \cup ReallocMethods \cup QueryMethods \cup {"free", "collect"}
Counted == {"calloc", "mallocn", "reallocn"}

\* The engine function each method calls.
EngineFn(m) ==
    CASE m = "collect" -> "mi_heap_collect"
      [] m = "malloc" -> "mi_heap_malloc"
      [] m = "free" -> "mi_free"
      [] m = "zalloc" -> "mi_heap_zalloc"
      [] m = "calloc" -> "mi_heap_calloc"
      [] m = "mallocn" -> "mi_heap_mallocn"
      [] m = "malloc_small" -> "mi_heap_malloc_small"
      [] m = "realloc" -> "mi_heap_realloc"
      [] m = "reallocn" -> "mi_heap_reallocn"
      [] m = "reallocf" -> "mi_heap_reallocf"
      [] m = "rezalloc" -> "mi_heap_rezalloc"
      [] m = "contains_block" -> "mi_heap_contains_block"
      [] m = "check_owned" -> "mi_heap_check_owned"

\* A method that passes the thread's default heap instead of the bound one.
ForwardToDefault(self, m, p, count, size) ==
    [fn |-> EngineFn(m), heap |-> mi_heap_get_default(1),
     p |-> p, count |-> count, size |-> size]

\* realloc forwarded to the engine's reallocf (and the other way round).
ForwardReallocSwapped(self, m, p, count, size) ==
    [fn |-> IF m = "realloc" THEN "mi_heap_reallocf"
            ELSE IF m = "reallocf" THEN "mi_heap_realloc" ELSE EngineFn(m),
     heap |-> self.heap, p |-> p, count |-> count, size |-> size]

\* zalloc and calloc forwarded to the engine's functions that do not clear.
ForwardZeroAsMalloc(self, m, p, count, size) ==
    [fn |-> IF m = "zalloc" THEN "mi_heap_malloc"
            ELSE IF m = "calloc" THEN "mi_heap_mallocn" ELSE EngineFn(m),
     heap |-> IF m = "free" THEN NoHeap ELSE self.heap,
     p |-> p, count |-> count, size |-> size]

\* The one engine call a method body makes: the engine function of the same
\* name with self.heap and the caller's arguments (mi_free takes no heap).
Forward(self, m, p, count, size) ==
    [fn |-> EngineFn(m), heap |-> IF m = "free" THEN NoHeap ELSE self.heap,
     p |-> p, count |-> count, size |-> size]

\* ------------------------------------------------- the engine's primitives
PtrResult(q) == [kind |-> "ptr", p |-> q]
BoolResult(b) == [kind |-> "bool", b |-> b]
UnitResult == [kind |-> "unit"]
Outcome(b, r) == [blocks |-> b, result |-> r]

FreeAddrs(b) == {q \in Addrs : b[q] = FreeBlock}
LiveAddrs(b) == Addrs \ FreeAddrs(b)

\* An allocation of n bytes in heap h: null (out of memory), or a block at an
\* address not in use.
MiAlloc(b, h, n) ==
    {Outcome(b, PtrResult(NullPtr))}
        \cup {Outcome([b EXCEPT ![q] = [heap |-> h, size |-> n]], PtrResult(q)) :
                q \in FreeAddrs(b)}

\* A re-allocation of p to n bytes in heap h: null with p as it was (or, for
\* reallocf, with p freed); p itself, resized in place; or a new block, with
\* p freed.  A null p makes it an allocation.
MiRealloc(b, h, p, n, free_on_failure) ==
    IF p = NullPtr THEN MiAlloc(b, h, n)
    ELSE {Outcome(IF free_on_failure THEN [b EXCEPT ![p] = FreeBlock] ELSE b,
                  PtrResult(NullPtr))}
         \cup {Outcome([b EXCEPT ![p].size = n], PtrResult(p))}
         \cup {Outcome([b EXCEPT ![q] = [heap |-> h, size |-> n], ![p] = FreeBlock],
                       PtrResult(q)) : q \in FreeAddrs(b)}

\* What the engine may do on the call c when its memory is b.
MiOutcomes(b, c) ==
    CASE c.fn \in {"mi_heap_malloc", "mi_heap_zalloc", "mi_heap_malloc_small"} ->
            MiAlloc(b, c.heap, c.size)
      [] c.fn \in {"mi_heap_calloc", "mi_heap_mallocn"} ->
            MiAlloc(b, c.heap, c.count * c.size)
      [] c.fn \in {"mi_heap_realloc", "mi_heap_rezalloc"} ->
            MiRealloc(b, c.heap, c.p, c.size, FALSE)
      [] c.fn = "mi_heap_reallocn" ->
            MiRealloc(b, c.heap, c.p, c.count * c.size, FALSE)
      [] c.fn = "mi_heap_reallocf" ->
            MiRealloc(b, c.heap, c.p, c.size, TRUE)
      [] c.fn = "mi_free" ->
            {Outcome(IF c.p = NullPtr THEN b ELSE [b EXCEPT ![c.p] = FreeBlock],
                     UnitResult)}
      [] c.fn = "mi_heap_collect" -> {Outcome(b, UnitResult)}
      [] c.fn \in {"mi_heap_contains_block", "mi_heap_check_owned"} ->
            {Outcome(b, BoolResult(c.p # NullPtr /\ b[c.p] # FreeBlock
                                     /\ b[c.p].heap = c.heap))}

\* ------------------------------------------------- the bytes of the blocks
\* The bytes at an address: "zero" as the system handed the memory out,
\* "data" once the caller has stored in it, "zeroed" when the engine has
\* cleared such memory again.  A free leaves the bytes as they are.
FreshMem == "zero"
IsZero(x) == x \in {"zero", "zeroed"}
Zeroing == {"mi_heap_zalloc", "mi_heap_calloc", "mi_heap_rezalloc"}

\* The bytes of a new block at q: cleared by the zero-initialising functions,
\* left as they are by the others.
MemAlloc(m, fn, q) ==
    IF q # NullPtr /\ fn \in Zeroing /\ m[q] = "data"
    THEN [m EXCEPT ![q] = "zeroed"]
    ELSE m

\* The bytes after a re-allocation of p that returned q: in place nothing
\* moves; a move copies p's bytes to q, and the bytes of q beyond the copy
\* are cleared by mi_heap_rezalloc only.
MemRealloc(m, fn, p, q) ==
    IF p = NullPtr THEN MemAlloc(m, fn, q)
    ELSE IF q = NullPtr \/ q = p THEN m
    ELSE [m EXCEPT ![q] =
            IF m[p] = "data" THEN "data"
            ELSE IF m[q] # "data" THEN m[p]
            ELSE IF fn = "mi_heap_rezalloc" THEN "zeroed" ELSE "data"]

\* The bytes after the engine call c with the outcome o.
MiMem(m, c, o) ==
    CASE c.fn \in {"mi_heap_malloc", "mi_heap_zalloc", "mi_heap_malloc_small",
                   "mi_heap_calloc", "mi_heap_mallocn"} ->
            MemAlloc(m, c.fn, o.result.p)
      [] c.fn \in {"mi_heap_realloc", "mi_heap_rezalloc", "mi_heap_reallocn",
                   "mi_heap_reallocf"} ->
            MemRealloc(m, c.fn, c.p, o.result.p)
      [] OTHER -> m

\* The Allocators a caller can call: those it holds a pool handle to, and
\* those it built; calling through a null heap is undefined and left out.
PoolAllocators == {AllocatorNew(arcs[a].id, arcs[a].heap) : a \in {x \in 1 .. Len(arcs) : held[x] > 0}}
Usable == {x \in PoolAllocators \cup locals : x.heap # NullHeap}

\* The pointers a caller may pass to method m: null or a live block where the
\* engine asks for a block it allocated, any address for check_owned.
PtrArgs(m) ==
    IF m \in ReallocMethods \cup {"free"} THEN {NullPtr} \cup LiveAddrs(blocks)
    ELSE IF m = "contains_block" THEN LiveAddrs(blocks)
    ELSE IF m = "check_owned" THEN Addrs
    ELSE {NullPtr}
BytesArg(m) == IF m \in ReallocMethods THEN GrownSize ELSE AllocSize
\* count and size: a counted method gets the bytes as count items of size 1.
CountArgs(m) == IF m \in Counted THEN {BytesArg(m)} ELSE {1}
SizeArgs(m) == IF m \in Counted THEN {1} ELSE {BytesArg(m)}

MethodCall(self, m, p, count, size) ==
    [name |-> m, self |-> self, p |-> p, count |-> count, size |-> size]

\* A method that, when the engine fails, falls back to a heap it creates and
\* registers in the pool.
allocator_method_FallsBackToPool(self, m, p, count, size) ==
    \E o \in MiOutcomes(blocks, Forward(self, m, p, count, size)) :
        /\ blocks' = o.blocks
        /\ ecalls' = <<[call |-> Forward(self, m, p, count, size), result |-> o.result]>>
        /\ ret' = o.result
        /\ mem' = MiMem(mem, Forward(self, m, p, count, size), o)
        /\ lowest_id' = IF o.result = PtrResult(NullPtr)
                        THEN WrappingAdd(lowest_id, 1) ELSE lowest_id
        /\ UNCHANGED <<heaps, arcs, held, locals, options,
                       engine_calls, engine_heaps, live_heaps>>

\* A method of Allocator (&self): one call of the engine, its result returned.
allocator_method(self, m, p, count, size) ==
    \E o \in MiOutcomes(blocks, Forward(self, m, p, count, size)) :
        /\ blocks' = o.blocks
        /\ ecalls' = <<[call |-> Forward(self, m, p, count, size), result |-> o.result]>>
        /\ ret' = o.result
        /\ mem' = MiMem(mem, Forward(self, m, p, count, size), o)
        /\ UNCHANGED <<lowest_id, heaps, arcs, held, locals, options,
                       engine_calls, engine_heaps, live_heaps>>

\* ------------------------------- new_allocator without outside serialising
\* The frame of a thread that is not running new_allocator.
IdleFrame == [pc |-> "idle", heap |-> NoHeap, id |-> 0, arc |-> 0,
              overlap |-> {}]
InCall(f) == f.pc \in {"read", "write", "insert"}

\* let heap = unsafe { mi_heap_new() }: thread t enters and gets its heap.
\* overlap records the threads that were inside the function meanwhile.
new_allocator_heap(t) ==
    /\ frames[t].pc = "idle"
    /\ \E heap \in mi_heap_new :
          /\ engine_calls' = engine_calls + 1
          /\ engine_heaps' = IF heap = NullHeap THEN engine_heaps
                                                ELSE engine_heaps + 1
          /\ live_heaps' = live_heaps \cup ({heap} \ {NullHeap})
          /\ ecalls' = <<MiHeapNewCall(heap)>>
          /\ frames' = [u \in Threads |->
                IF u = t
                THEN [frames[t] EXCEPT !.pc = "read", !.heap = heap,
                         !.overlap = {v \in Threads \ {t} : InCall(frames[v])}]
                ELSE IF InCall(frames[u])
                     THEN [frames[u] EXCEPT !.overlap = @ \cup {t}]
                     ELSE frames[u]]
    /\ UNCHANGED <<lowest_id, heaps, arcs, held, locals, blocks, mem, options, ret>>

\* let id = self.lowest_id + 1: the read of the field and the addition.
new_allocator_read(t) ==
    /\ frames[t].pc = "read"
    /\ IF overflow_checks /\ Overflows(lowest_id, 1)
       THEN /\ frames' = [frames EXCEPT ![t].pc = "panicked"]
            /\ ret' = RetPanic
       ELSE /\ frames' = [frames EXCEPT ![t].pc = "write",
                                        ![t].id = WrappingAdd(lowest_id, 1)]
            /\ ret' = ret
    /\ UNCHANGED <<lowest_id, heaps, arcs, held, locals, blocks, mem, options, ecalls,
                   engine_calls, engine_heaps, live_heaps>>

\* The store of the id left out.
new_allocator_write_NoStore(t) ==
    /\ frames[t].pc = "write"
    /\ frames' = [frames EXCEPT ![t].pc = "insert"]
    /\ UNCHANGED <<lowest_id, heaps, arcs, held, locals, blocks, mem, options, ecalls, ret,
                   engine_calls, engine_heaps, live_heaps>>

\* self.lowest_id = id: the store.
new_allocator_write(t) ==
    /\ frames[t].pc = "write"
    /\ lowest_id' = frames[t].id
    /\ frames' = [frames EXCEPT ![t].pc = "insert"]
    /\ UNCHANGED <<heaps, arcs, held, locals, blocks, mem, options, ecalls, ret,
                   engine_calls, engine_heaps, live_heaps>>

\* Arc::new, self.heaps.insert(id, alloc.clone()), and the return of alloc.
new_allocator_insert(t) ==
    /\ frames[t].pc = "insert"
    /\ LET id == frames[t].id
           a == Len(arcs) + 1
           created == ArcClone(ArcNew(arcs, AllocatorNew(id, frames[t].heap)), a)
       IN /\ heaps' = MapInsert(heaps, id, a)
          /\ arcs' = ArcDropAll(created, MapReplaced(heaps, id))
          /\ live_heaps' = AllocatorDropAll(live_heaps,
                                            TornDownBetween(created, arcs'))
          /\ held' = Append(held, 1)
          /\ frames' = [frames EXCEPT ![t].pc = "done", ![t].arc = a]
          /\ ret' = RetSome(a)
    /\ UNCHANGED <<lowest_id, locals, blocks, mem, options, ecalls, engine_calls, engine_heaps>>

\* ------------------------------------------------------------ visit_blocks
\* The memory areas of heap h: one per block size in use (mi_heap_area_t has
\* one block_size), and the blocks of an area.
Areas(b, h) == {b[q].size : q \in {x \in LiveAddrs(b) : b[x].heap = h}}
AreaBlocks(b, h, n) == {q \in LiveAddrs(b) : b[q].heap = h /\ b[q].size = n}
Visit(h, n, q) == [heap |-> h, area |-> n, block |-> q]

\* The elements of a set of numbers in ascending order.
RECURSIVE Ascending(_)
Ascending(S) ==
    IF S = {} THEN <<>>
    ELSE LET x == CHOOSE y \in S : \A z \in S : y <= z
         IN <<x>> \o Ascending(S \ {x})

RECURSIVE VisitsOf(_, _, _)
VisitsOf(h, n, qs) ==
    IF qs = <<>> THEN <<>>
    ELSE <<Visit(h, n, Head(qs))>> \o VisitsOf(h, n, Tail(qs))

\* The whole walk: every area with a null block, followed, when all blocks
\* are asked for, by the area's blocks.
RECURSIVE Walk(_, _, _, _)
Walk(b, h, all, ns) ==
    IF ns = <<>> THEN <<>>
    ELSE <<Visit(h, Head(ns), NullPtr)>>
         \o (IF all THEN VisitsOf(h, Head(ns), Ascending(AreaBlocks(b, h, Head(ns))))
                    ELSE <<>>)
         \o Walk(b, h, all, Tail(ns))

\* A visitor is None, or a function; of a function the walk sees the answers
\* only: stop_at is the invocation at which it first returns false (0: never).
NoVisitor == [kind |-> "None", stop_at |-> 0]
Visitors == {NoVisitor} \cup {[kind |-> "fn", stop_at |-> k] : k \in 0 .. 2 * MaxAddrs}

\* mi_heap_visit_blocks: the invocations of the visitor, in order, and the
\* result: the walk stops at the first false; no visitor, no walk.
mi_heap_visit_blocks(b, h, all, visitor) ==
    LET w == Walk(b, h, all, Ascending(Areas(b, h)))
        k == visitor.stop_at
    IN IF visitor.kind = "None" THEN [visits |-> <<>>, result |-> FALSE]
       ELSE IF k = 0 \/ k > Len(w) THEN [visits |-> w, result |-> TRUE]
       ELSE [visits |-> SubSeq(w, 1, k), result |-> FALSE]

VisitCall(self, all, visitor) ==
    [fn |-> "mi_heap_visit_blocks", heap |-> self.heap,
     visit_all |-> all, visitor |-> visitor]

\* visit_blocks asking the engine for all blocks, whatever the caller passed.
visit_blocks_AllBlocks(self, all, visitor) ==
    LET r == mi_heap_visit_blocks(blocks, self.heap, TRUE, visitor)
    IN /\ ecalls' = <<[call |-> VisitCall(self, TRUE, visitor),
                       result |-> BoolResult(r.result), visits |-> r.visits]>>
       /\ ret' = BoolResult(r.result)

\* visit_blocks returning true, whatever the engine returned.
visit_blocks_ReturnsTrue(self, all, visitor) ==
    LET r == mi_heap_visit_blocks(blocks, self.heap, all, visitor)
    IN /\ ecalls' = <<[call |-> VisitCall(self, all, visitor),
                       result |-> BoolResult(r.result), visits |-> r.visits]>>
       /\ ret' = BoolResult(TRUE)

\* Allocator::visit_blocks: the engine's walk of self.heap, its result
\* returned.
visit_blocks(self, all, visitor) ==
    LET r == mi_heap_visit_blocks(blocks, self.heap, all, visitor)
    IN /\ ecalls' = <<[call |-> VisitCall(self, all, visitor),
                       result |-> BoolResult(r.result), visits |-> r.visits]>>
       /\ ret' = BoolResult(r.result)

\* Allocator::default(), called on thread t.
AllocatorDefault(t) == [id |-> 0, heap |-> mi_heap_get_default(t)]

\* ------------------------------------------------------------------ actions
Init ==
    /\ overflow_checks \in BOOLEAN
    /\ pool_alive = TRUE
    /\ lowest_id = 0
    /\ heaps = EmptyMap
    /\ arcs = <<>>
    /\ held = <<>>
    /\ engine_calls = 0
    /\ engine_heaps = 0
    /\ live_heaps = {}
    /\ ecalls = <<>>
    /\ locals = {}
    /\ blocks = [p \in Addrs |-> FreeBlock]
    /\ only_new = TRUE
    /\ op = Call("new", 0, "None")
    /\ ret = RetUnit
    /\ mem = [p \in Addrs |-> FreshMem]
    /\ options = [o \in Options |-> UnsetOption]
    /\ frames = [t \in Threads |-> IdleFrame]

NewAllocator ==
    /\ pool_alive
    /\ HandlesHeld < MaxHandles
    /\ \E heap \in mi_heap_new : new_allocator(heap)
    /\ op' = Call("new_allocator", 0, "None")
    /\ UNCHANGED <<overflow_checks, pool_alive, only_new, frames>>

GetAllocator ==
    /\ pool_alive
    /\ HandlesHeld < MaxHandles
    /\ \E id \in Ids, create \in Creates :
          /\ \E heap \in mi_heap_new : get_allocator(id, create, heap)
          /\ op' = Call("get_allocator", id, create)
    /\ only_new' = FALSE
    /\ UNCHANGED <<overflow_checks, pool_alive, frames>>

\* A caller drops one of its handles.
DropHandle ==
    /\ \E a \in 1 .. Len(arcs) :
          /\ held[a] > 0
          /\ held' = [held EXCEPT ![a] = @ - 1]
          /\ arcs' = ArcDrop(arcs, a)
          /\ op' = Call("drop_handle", 0, "None")
    /\ live_heaps' = AllocatorDropAll(live_heaps, TornDownBetween(arcs, arcs'))
    /\ ret' = RetUnit
    /\ ecalls' = <<>>
    /\ UNCHANGED <<overflow_checks, pool_alive, lowest_id, heaps,
                   engine_calls, engine_heaps, locals, blocks, mem, options, only_new, frames>>

\* The pool is dropped: its map goes, and with it the map's Arcs.
DropPool ==
    /\ pool_alive
    /\ pool_alive' = FALSE
    /\ arcs' = ArcDropAll(arcs, MapValues(heaps))
    /\ heaps' = EmptyMap
    /\ live_heaps' = AllocatorDropAll(live_heaps, TornDownBetween(arcs, arcs'))
    /\ op' = Call("drop_pool", 0, "None")
    /\ ret' = RetUnit
    /\ ecalls' = <<>>
    /\ UNCHANGED <<overflow_checks, lowest_id, held, engine_calls, engine_heaps,
                   locals, blocks, mem, options, only_new, frames>>

Next == NewAllocator \/ GetAllocator \/ DropHandle \/ DropPool

Spec == Init /\ [][Next]_vars

\* A caller calls a method of an Allocator it can reach.
AllocatorCall ==
    /\ \E self \in Usable, m \in Methods :
          \E p \in PtrArgs(m), count \in CountArgs(m), size \in SizeArgs(m) :
              /\ allocator_method(self, m, p, count, size)
              /\ op' = MethodCall(self, m, p, count, size)
    /\ UNCHANGED <<overflow_checks, pool_alive, only_new, frames>>

\* A thread builds the default Allocator.
DefaultCall ==
    /\ \E t \in Threads :
          /\ locals' = locals \cup {AllocatorDefault(t)}
          /\ ecalls' = <<[fn |-> "mi_heap_get_default",
                         result |-> mi_heap_get_default(t)]>>
          /\ op' = [name |-> "default", thread |-> t]
          /\ ret' = [kind |-> "allocator", alloc |-> AllocatorDefault(t)]
    /\ UNCHANGED <<overflow_checks, pool_alive, lowest_id, heaps, arcs, held,
                   engine_calls, engine_heaps, live_heaps, blocks, mem, options, only_new,
                   frames>>

\* The caller stores bytes in a block it holds.
WriteBlock ==
    /\ \E p \in LiveAddrs(blocks) :
          /\ mem' = [mem EXCEPT ![p] = "data"]
          /\ op' = [name |-> "write", p |-> p]
    /\ ret' = RetUnit
    /\ ecalls' = <<>>
    /\ UNCHANGED <<overflow_checks, pool_alive, lowest_id, heaps, arcs, held,
                   engine_calls, engine_heaps, live_heaps, locals, blocks,
                   options, only_new, frames>>

\* The pool's first allocator and the main thread's default allocator, their
\* methods and the engine's memory.
NewAllocatorFirst == lowest_id = 0 /\ engine_calls = 0 /\ NewAllocator
DefaultCallMain == DefaultCall /\ locals' = {AllocatorDefault(1)}
NextHeap == NewAllocatorFirst \/ DefaultCallMain \/ AllocatorCall
SpecHeap == Init /\ [][NextHeap]_vars

\* The pool's first allocator, the methods that allocate, re-allocate and
\* free, and the caller's stores in the blocks.
BytesMethods == {"malloc", "zalloc", "calloc", "realloc", "rezalloc", "free"}
AllocatorCallBytes == AllocatorCall /\ op'.name \in BytesMethods
NextBytes == NewAllocatorFirst \/ AllocatorCallBytes \/ WriteBlock
SpecBytes == Init /\ [][NextBytes]_vars

\* A caller walks the heap of an Allocator it can reach.
VisitBlocksCall ==
    /\ \E self \in Usable, all \in BOOLEAN, visitor \in Visitors :
          /\ visit_blocks(self, all, visitor)
          /\ op' = [name |-> "visit_blocks", self |-> self, visit_all |-> all,
                    visitor |-> visitor]
    /\ UNCHANGED <<overflow_checks, pool_alive, lowest_id, heaps, arcs, held,
                   engine_calls, engine_heaps, live_heaps, locals, blocks, mem,
                   options, only_new, frames>>

\* The pool's first allocator and the main thread's default allocator, with
\* blocks of two sizes in their heaps, and the walks.
VisitMethods == {"malloc", "realloc", "free"}
AllocatorCallVisit == AllocatorCall /\ op'.name \in VisitMethods
NextVisit ==
    NewAllocatorFirst \/ DefaultCallMain \/ AllocatorCallVisit \/ VisitBlocksCall
SpecVisit == Init /\ [][NextVisit]_vars

\* The runtime options, read and set as libmimalloc-sys's test does.
OptionGet ==
    /\ \E o \in Options :
          /\ op' = [name |-> "mi_option_get", option |-> o]
          /\ ret' = LongResult(mi_option_get(o))
    /\ ecalls' = <<>>
    /\ UNCHANGED <<overflow_checks, pool_alive, lowest_id, heaps, arcs, held,
                   engine_calls, engine_heaps, live_heaps, locals, blocks, mem,
                   options, only_new, frames>>
OptionSet ==
    /\ \E o \in Options, v \in OptionValues :
          /\ options' = mi_option_set(o, v)
          /\ op' = [name |-> "mi_option_set", option |-> o, value |-> v]
    /\ ret' = RetUnit
    /\ ecalls' = <<>>
    /\ UNCHANGED <<overflow_checks, pool_alive, lowest_id, heaps, arcs, held,
                   engine_calls, engine_heaps, live_heaps, locals, blocks, mem,
                   only_new, frames>>
NextOptions == OptionGet \/ OptionSet
SpecOptions == Init /\ [][NextOptions]_vars

\* The whole pool, past the counter's maximum, with allocations through the
\* handles the callers hold (one block in use at a time).
AllocatorCallFirstBlock ==
    /\ LiveAddrs(blocks) = {}
    /\ AllocatorCall
    /\ op'.name \in AllocMethods
NextWrapHeap == Next \/ AllocatorCallFirstBlock
SpecWrapHeap == Init /\ [][NextWrapHeap]_vars

\* The threads call new_allocator once each on one pool, with nothing
\* outside the pool serialising the calls: the statements interleave.
StepOp(t, step) == [name |-> "new_allocator", thread |-> t, step |-> step]
RaceHeapNew ==
    /\ \E t \in Threads : new_allocator_heap(t) /\ op' = StepOp(t, "mi_heap_new")
    /\ UNCHANGED <<overflow_checks, pool_alive, only_new>>
RaceRead ==
    /\ \E t \in Threads : new_allocator_read(t) /\ op' = StepOp(t, "read")
    /\ UNCHANGED <<overflow_checks, pool_alive, only_new>>
RaceWrite ==
    /\ \E t \in Threads : new_allocator_write(t) /\ op' = StepOp(t, "write")
    /\ UNCHANGED <<overflow_checks, pool_alive, only_new>>
RaceInsert ==
    /\ \E t \in Threads : new_allocator_insert(t) /\ op' = StepOp(t, "insert")
    /\ UNCHANGED <<overflow_checks, pool_alive, only_new>>
NextRace == RaceHeapNew \/ RaceRead \/ RaceWrite \/ RaceInsert
SpecRace == Init /\ [][NextRace]_vars

\* The pool and the threads' default allocators.
NextDefault == NewAllocatorFirst \/ DropHandle \/ DropPool \/ DefaultCall
SpecDefault == Init /\ [][NextDefault]_vars

\* ------------------------------------------------------------ the claims
Minted == 1 .. Len(arcs)
IsGet(o) == o.name = "get_allocator"
IsNew(o) == o.name = "new_allocator"

\* C1: no two calls that mint an allocator (new_allocator, or get_allocator on
\* a miss with creation requested) return allocators with the same id.
C1_UniqueIds ==
    \A i, j \in Minted : i # j => arcs[i].id # arcs[j].id

\* C2: on a fresh pool, the i-th of k consecutive new_allocator calls returns
\* an allocator with id i (every call returns one, and the ids are 1, 2, ..., k).
C2_SequentialIds ==
    only_new => /\ Len(arcs) = engine_calls
                /\ \A i \in Minted : arcs[i].id = i

\* C3: get_allocator(id, create) for a registered id returns, whatever create
\* is, the very Allocator (same id, same heap handle) that was returned when
\* that id was minted: the map's entry, which is every Arc ever minted under id.
C3_HitReturnsMinted ==
    [][(IsGet(op') /\ pool_alive /\ op'.id \in DOMAIN heaps) =>
          /\ ret' = RetSome(heaps[op'.id])
          /\ \A a \in Minted :
                arcs[a].id = op'.id =>
                    /\ ret'.arc = a
                    /\ arcs'[ret'.arc].heap = arcs[a].heap]_vars

\* C4: get_allocator(id, None) for an unregistered id returns None and leaves
\* lowest_id and heaps as they were, and asks the engine for no heap.
C4_MissNoneNotFound ==
    [][(IsGet(op') /\ op'.create = "None" /\ pool_alive
            /\ op'.id \notin DOMAIN heaps) =>
          /\ ret' = RetNone
          /\ UNCHANGED <<lowest_id, heaps, arcs, engine_calls, engine_heaps>>]_vars

\* A pool with ids 1 and 2 minted was asked for an id it does not hold, with
\* create = None, and answered None.
C4_Witness ==
    /\ IsGet(op) /\ op.create = "None" /\ ret = RetNone
    /\ DOMAIN heaps = {1, 2}
    /\ op.id \notin DOMAIN heaps

\* C5: get_allocator(id, Some(true)) for an unregistered id asks new_allocator
\* for a new heap and returns an allocator whose id is the previous
\* lowest_id + 1 (in the id type), whatever id was asked for; the id asked for
\* is registered afterwards only if it equals the minted id.
C5_MissCreateMintsNext ==
    [][(IsGet(op') /\ op'.create = "SomeTrue" /\ pool_alive
            /\ op'.id \notin DOMAIN heaps) =>
          /\ engine_calls' = engine_calls + 1
          /\ ret'.kind = "some"
          /\ arcs'[ret'.arc].id = WrappingAdd(lowest_id, 1)
          /\ (op'.id \in DOMAIN heaps' <=> op'.id = arcs'[ret'.arc].id)]_vars

\* C6: lowest_id and heaps change only in new_allocator and in get_allocator on
\* a miss with creation requested (Some(true)); a get_allocator call on a hit,
\* or with create None or Some(false), leaves them unchanged and creates no heap.
C6_OnlyMintsChangePool ==
    [][/\ (pool_alive' /\ <<lowest_id, heaps>>' # <<lowest_id, heaps>>) =>
              \/ IsNew(op')
              \/ (IsGet(op') /\ op'.id \notin DOMAIN heaps
                    /\ op'.create = "SomeTrue")
       /\ (IsGet(op') /\ (op'.id \in DOMAIN heaps
                            \/ op'.create \in {"None", "SomeFalse"})) =>
              UNCHANGED <<lowest_id, heaps, engine_calls, engine_heaps>>]_vars

\* C7: the keys of heaps are exactly 1 .. lowest_id; 0 is never a key.
C7_KeysAreOneToLowest ==
    pool_alive => DOMAIN heaps = 1 .. lowest_id

\* C8: an id that is a key of heaps stays a key in every later state of the
\* pool, mapped to the same Allocator; nothing removes or replaces an entry.
C8_RegistrationPermanent ==
    [][pool_alive' =>
          \A k \in DOMAIN heaps :
              k \in DOMAIN heaps' /\ heaps'[k] = heaps[k]]_vars

\* C9: every id returned by a minting call is strictly greater than every id
\* minted before it on the same pool, the call at the counter's maximum included.
C9_StrictlyIncreasing ==
    \A i, j \in Minted : i < j => arcs[i].id < arcs[j].id

\* C10: an Allocator is torn down only when its last holder (the pool's map
\* entry, or a handle in a caller's hands) releases it: a registered Allocator
\* of a live pool is never torn down by callers dropping handles, and a handle
\* a caller keeps stays valid after the pool is dropped.
Holders(a) == held[a] + Cardinality({k \in DOMAIN heaps : heaps[k] = a})
C10_TornDownOnlyByLastHolder ==
    \A a \in Minted :
        /\ TornDown(a) <=> Holders(a) = 0
        /\ a \in MapValues(heaps) => ~TornDown(a)
        /\ held[a] > 0 => ~TornDown(a)

\* The pool has been dropped; a caller still holds a handle, whose Allocator
\* is alive with that handle as its only owner, while another Allocator, whose
\* handles had all been dropped, went with the pool.
C10_Witness ==
    /\ ~pool_alive
    /\ \E a, b \in Minted :
          /\ held[a] = 1 /\ arcs[a].strong = 1
          /\ held[b] = 0 /\ TornDown(b)

\* A call that mints: new_allocator, or get_allocator on a miss with Some(_).
MintStep ==
    \/ IsNew(op')
    \/ (IsGet(op') /\ op'.id \notin DOMAIN heaps /\ op'.create # "None")

\* C11: no operation deletes or destroys a heap: every heap the engine ever
\* created for new_allocator is still alive, also after the last reference to
\* its Allocator was released and after the pool was dropped.
C11_HeapsNeverDestroyed ==
    live_heaps = {HeapHandle(k) : k \in 1 .. engine_heaps}

\* The pool is dropped and an Allocator with a real heap has been torn down;
\* its heap is still alive.
C11_Witness ==
    /\ ~pool_alive
    /\ \E a \in Minted :
          TornDown(a) /\ arcs[a].heap # NullHeap /\ arcs[a].heap \in live_heaps

\* C12: heaps are created only by new_allocator, one new-heap request per
\* minting call and none by any other operation; hence the number of heaps
\* created through the pool equals lowest_id (stated here for the runs in
\* which every new-heap request succeeded).
C12_HeapsOnlyFromMints ==
    [][/\ (engine_calls' # engine_calls \/ live_heaps' # live_heaps) =>
              (MintStep /\ Len(ecalls') = 1)
       /\ MintStep => engine_calls' = engine_calls + 1
       /\ (pool_alive' /\ engine_heaps' = engine_calls') =>
              engine_heaps' = lowest_id']_vars

\* C14: no operation is process-fatal: every call returns to its caller with
\* a value, new_allocator at the counter's maximum included.
C14_NoCallPanics ==
    ret.kind # "panic"

\* Thread t has returned from new_allocator; t and u returned the same id;
\* the pool's map no longer holds what t inserted.
Returned(t) == frames[t].pc = "done"
Clash(t, u) ==
    /\ t # u /\ Returned(t) /\ Returned(u)
    /\ frames[t].id = frames[u].id
Lost(t) == Returned(t) /\ heaps[frames[t].id] # frames[t].arc

\* C13: the pool does not synchronise its own mutation: two new_allocator
\* calls that nothing outside serialises race on lowest_id and heaps (the
\* same id returned twice, one entry overwriting the other); this happens
\* between calls that overlapped, and only between those.
C13_ClashOnlyWhenInterleaved ==
    \A t \in Threads :
        /\ \A u \in Threads : Clash(t, u) => u \in frames[t].overlap
        /\ Lost(t) => \E u \in frames[t].overlap :
                          Clash(t, u) /\ heaps[frames[t].id] = frames[u].arc

\* Two threads returned the same id for two different heaps; the map holds
\* one of the two Allocators, the other's entry is gone.
C13_Witness ==
    \E t, u \in Threads :
        /\ Clash(t, u) /\ Lost(t)
        /\ frames[t].heap # frames[u].heap
        /\ frames[t].heap # NullHeap /\ frames[u].heap # NullHeap
        /\ heaps[frames[u].id] = frames[u].arc
        /\ frames[t].arc # frames[u].arc

\* Every Allocator there is: those of the pool's Arcs that are not torn down,
\* and those the callers built.
AllAllocators ==
    {AllocatorNew(arcs[a].id, arcs[a].heap) : a \in {x \in Minted : ~TornDown(x)}}
        \cup locals

\* C15: every Allocator, however constructed, has the engine's default heap
\* when its id is 0, and otherwise a heap that the engine's new-heap call
\* returned and that is still alive.
C15_AllocatorHeapInvariant ==
    \A x \in AllAllocators :
        IF x.id = 0 THEN x.heap.kind = "default" ELSE x.heap \in live_heaps

\* C16: Allocator::default() yields id 0 bound to the engine's default heap,
\* the same heap as every Allocator obtained from Allocator::default() before,
\* and creates no heap.
C16_DefaultIsOneHeap ==
    [][op'.name = "default" =>
          /\ ret'.alloc.id = 0
          /\ ret'.alloc.heap.kind = "default"
          /\ \A x \in locals : x.heap = ret'.alloc.heap
          /\ UNCHANGED <<engine_calls, engine_heaps, live_heaps>>]_vars

IsMethod(o) == o.name \in Methods

\* C17: every allocation, re-allocation, free, collect or introspection call
\* on an Allocator leaves the Allocator's (id, heap) and the pool's lowest_id
\* and heaps unchanged; only the engine's memory may change.
C17_MethodsLeavePoolAlone ==
    [][IsMethod(op') =>
          /\ UNCHANGED <<lowest_id, heaps, arcs, held, locals, pool_alive,
                         engine_calls, engine_heaps, live_heaps>>
          /\ op'.self \in Usable']_vars

\* A re-allocation through the pool's allocator of id 1 moved or resized a
\* block of its heap, with the pool holding id 1.
C17_Witness ==
    /\ op.name = "realloc" /\ op.p # NullPtr
    /\ op.self.id = 1 /\ DOMAIN heaps = {1} /\ lowest_id = 1
    /\ ret.kind = "ptr" /\ ret.p # NullPtr
    /\ blocks[ret.p] = [heap |-> op.self.heap, size |-> GrownSize]

\* check_owned(q) through the Allocator x, the engine's memory being b.
CheckOwned(b, x, q) ==
    \A o \in MiOutcomes(b, Forward(x, "check_owned", q, 1, 1)) :
        o.result = BoolResult(TRUE)

\* C18: a block allocated through a handle obtained for pool id i belongs to
\* heap i only: check_owned is true through every handle obtained for id i and
\* false through a handle for another id or the default allocator, and the
\* blocks of the other heaps are as before.
C18_BlockOwnedByItsId ==
    [][(op'.name \in AllocMethods /\ ret' # PtrResult(NullPtr)
            /\ op'.self \in PoolAllocators) =>
          /\ \A x \in Usable' :
                CheckOwned(blocks', x, ret'.p)
                    <=> (x \in PoolAllocators' /\ x.id = op'.self.id)
          /\ \A q \in Addrs \ {ret'.p} : blocks'[q] = blocks[q]]_vars

\* C19: when a re-allocation (realloc, reallocn, rezalloc) returns null for a
\* non-null pointer, the block is still allocated, as it was; when reallocf
\* returns null, the block has been freed.
C19_ReallocFailureOwnership ==
    [][(op'.name \in ReallocMethods /\ op'.p # NullPtr
            /\ ret' = PtrResult(NullPtr)) =>
          IF op'.name = "reallocf"
          THEN blocks'[op'.p] = FreeBlock
          ELSE blocks[op'.p] # FreeBlock /\ blocks' = blocks]_vars

\* realloc of a live block returned null, and the block is still there.
C19_Witness ==
    /\ op.name = "realloc" /\ op.p # NullPtr
    /\ ret = PtrResult(NullPtr)
    /\ blocks[op.p] = [heap |-> op.self.heap, size |-> AllocSize]

\* C20: every allocation and re-allocation method makes exactly one engine
\* call, of the matching primitive with the bound heap and the caller's
\* arguments, and returns the engine's result unchanged (null when, and only
\* when, the engine returned null).
C20_OneCallResultVerbatim ==
    [][op'.name \in AllocMethods \cup ReallocMethods =>
          /\ Len(ecalls') = 1
          /\ ecalls'[1].call = [fn |-> EngineFn(op'.name), heap |-> op'.self.heap,
                                p |-> op'.p, count |-> op'.count, size |-> op'.size]
          /\ ret' = ecalls'[1].result]_vars

\* calloc through the pool's allocator failed in the engine, and the caller
\* got the null.
C20_Witness ==
    /\ op.name = "calloc" /\ op.self.id = 1
    /\ Len(ecalls) = 1 /\ ecalls[1].call.fn = "mi_heap_calloc"
    /\ ecalls[1].result = PtrResult(NullPtr) /\ ret = PtrResult(NullPtr)

\* C26: with the pool's callers serialised (each new_allocator, get_allocator
\* one atomic step), in every interleaving the minted ids are unique and the
\* keys of heaps are 1 .. lowest_id; allocation calls on handles already
\* obtained interleave with the pool's calls and change neither.
C26_SerializedCallsKeepPool ==
    [][/\ \A i, j \in 1 .. Len(arcs') : i # j => arcs'[i].id # arcs'[j].id
       /\ pool_alive' => DOMAIN heaps' = 1 .. lowest_id'
       /\ op'.name \in AllocMethods => UNCHANGED <<lowest_id, heaps, arcs>>]_vars

\* C27: every entry (k -> a) of heaps has a.id = k, and (the engine returning
\* a fresh handle from each successful new-heap call) distinct registered ids
\* are bound to distinct heap handles, none of them the default heap.
C27_EntriesBindDistinctHeaps ==
    \A k \in DOMAIN heaps :
        /\ arcs[heaps[k]].id = k
        /\ arcs[heaps[k]].heap.kind # "default"
        /\ \A j \in DOMAIN heaps \ {k} :
              arcs[heaps[j]].heap # arcs[heaps[k]].heap

\* The last call was get_allocator(id, Some(true)) for an unregistered id and
\* returned an allocator with another id.
MissedCreate ==
    /\ IsGet(op) /\ op.create = "SomeTrue"
    /\ ret.kind = "some" /\ arcs[ret.arc].id # op.id

\* C28: get_allocator(id, Some(true)) for an unregistered id other than
\* lowest_id + 1 leaves id unregistered, and a second get_allocator(id,
\* Some(true)) creates another heap and returns an allocator whose id and heap
\* both differ from the first one's.
C28_GetOrCreateNotIdempotent ==
    [][/\ (IsGet(op') /\ op'.create = "SomeTrue" /\ pool_alive
             /\ op'.id \notin DOMAIN heaps /\ op'.id # lowest_id + 1) =>
              op'.id \notin DOMAIN heaps'
       /\ (MissedCreate /\ pool_alive /\ IsGet(op') /\ op'.id = op.id
             /\ op'.create = "SomeTrue") =>
              /\ op.id \notin DOMAIN heaps
              /\ engine_heaps' = engine_heaps + 1
              /\ ret'.kind = "some"
              /\ arcs'[ret'.arc].id # arcs[ret.arc].id
              /\ arcs'[ret'.arc].heap # arcs[ret.arc].heap]_vars

\* C29: the default heap cannot be reached through the pool: get_allocator(0,
\* None) returns not found, and get_allocator(0, Some(_)) asks the engine for
\* a new heap and returns an allocator with an id >= 1 that is not bound to
\* the default heap.
C29_IdZeroNeverServed ==
    [][(IsGet(op') /\ op'.id = 0 /\ pool_alive) =>
          IF op'.create = "None" THEN ret' = RetNone
          ELSE /\ engine_calls' = engine_calls + 1
               /\ ret'.kind = "some"
               /\ arcs'[ret'.arc].id >= 1
               /\ arcs'[ret'.arc].heap.kind # "default"]_vars

\* C30: new_allocator has no failure path: when mi_heap_new returns null, the
\* call still advances lowest_id, registers and returns an Allocator bound to
\* the null handle, with no heap created.
C30_NullHeapIsRegistered ==
    [][(IsNew(op') /\ ecalls' = <<MiHeapNewCall(NullHeap)>>) =>
          /\ lowest_id' = WrappingAdd(lowest_id, 1)
          /\ ret'.kind = "some"
          /\ arcs'[ret'.arc] = [id |-> lowest_id', heap |-> NullHeap, strong |-> 2]
          /\ heaps'[lowest_id'] = ret'.arc
          /\ engine_heaps' = engine_heaps]_vars

\* C21: zalloc(n), and calloc likewise, returns null or a block of n bytes
\* that are all zero, also when the block is in memory that was allocated,
\* written and freed before.
C21_ZallocReturnsZeroBytes ==
    [][(op'.name \in {"zalloc", "calloc"} /\ ret' # PtrResult(NullPtr)) =>
          /\ blocks[ret'.p] = FreeBlock
          /\ blocks'[ret'.p] = [heap |-> op'.self.heap,
                                size |-> op'.count * op'.size]
          /\ IsZero(mem'[ret'.p])]_vars

\* zalloc returned a block in memory that held data, and its bytes are zero.
C21_Witness ==
    /\ op.name = "zalloc"
    /\ ret.kind = "ptr" /\ ret.p # NullPtr
    /\ mem[ret.p] = "zeroed"
    /\ blocks[ret.p] = [heap |-> op.self.heap, size |-> AllocSize]

\* The last call was a zero-initialising allocation and returned a block.
ZeroAllocated ==
    /\ op.name \in {"zalloc", "calloc"}
    /\ ret.kind = "ptr" /\ ret.p # NullPtr

\* C22: realloc is a zero-initialised re-allocation: on a block that came from
\* calloc or zalloc, with a larger newsize, the bytes beyond the original size
\* in the block it returns are zero, as with rezalloc.
C22_ReallocKeepsZero ==
    [][(ZeroAllocated /\ op'.name = "realloc" /\ op'.p = ret.p
            /\ op'.size > blocks[op'.p].size /\ ret' # PtrResult(NullPtr)) =>
          IsZero(mem'[ret'.p])]_vars

\* C25: the runtime options are a store with one value per option: each of
\* show_errors, show_stats, verbose reads 0 through mi_option_get until it is
\* first set; after mi_option_set(o, v), mi_option_get(o) returns v; and
\* setting one option changes the value read for no other.
C25_OptionsAreIndependent ==
    [][/\ op'.name = "mi_option_get" =>
              /\ ret' = LongResult(options[op'.option].value)
              /\ ~options[op'.option].init => ret' = LongResult(0)
              /\ (op.name = "mi_option_set" /\ op.option = op'.option) =>
                    ret' = LongResult(op.value)
              /\ options' = options
       /\ op'.name = "mi_option_set" =>
              /\ options'[op'.option] = [value |-> op'.value, init |-> TRUE]
              /\ \A x \in Options \ {op'.option} : options'[x] = options[x]]_vars

\* An option never set reads 0 after the two other options were set to 1.
C25_Witness ==
    /\ op.name = "mi_option_get" /\ ret = LongResult(0)
    /\ ~options[op.option].init
    /\ \A x \in Options \ {op.option} : options[x] = [value |-> 1, init |-> TRUE]

\* The walk of the last visit_blocks call.
Visits == ecalls[1].visits
IsVisit(o) == o.name = "visit_blocks" /\ o.visitor.kind = "fn"

\* C23: visit_blocks(false, visitor, arg) with a visitor that always returns
\* true invokes the visitor exactly once per memory area of the bound heap,
\* each time with a null block, and returns true; the visitor is never
\* invoked for an area or a block of another heap.
C23_VisitAreasOnly ==
    [][(IsVisit(op') /\ ~op'.visit_all /\ op'.visitor.stop_at = 0) =>
          /\ ret' = BoolResult(TRUE)
          /\ Len(Visits') = Cardinality(Areas(blocks, op'.self.heap))
          /\ {Visits'[i].area : i \in 1 .. Len(Visits')}
                = Areas(blocks, op'.self.heap)
          /\ \A i \in 1 .. Len(Visits') :
                /\ Visits'[i].block = NullPtr
                /\ Visits'[i].heap = op'.self.heap]_vars

\* A walk of areas only went over the areas of a heap holding a block, while
\* another heap held a block too.
C23_Witness ==
    /\ IsVisit(op) /\ ~op.visit_all /\ op.visitor.stop_at = 0
    /\ ret = BoolResult(TRUE) /\ Len(Visits) = 1
    /\ \E q \in LiveAddrs(blocks) : blocks[q].heap = op.self.heap
    /\ \E q \in LiveAddrs(blocks) : blocks[q].heap # op.self.heap

\* C24: visit_blocks stops at the first false of the visitor: the visitor is
\* not invoked again in that walk and visit_blocks returns false; it returns
\* true only when every area, and with visit_all_blocks every live block, was
\* visited.
C24_VisitStopsAtFalse ==
    [][IsVisit(op') =>
          LET k == op'.visitor.stop_at
              h == op'.self.heap
          IN /\ (k >= 1 /\ Len(Visits') >= k) =>
                    Len(Visits') = k /\ ret' = BoolResult(FALSE)
             /\ ret' = BoolResult(TRUE) =>
                    /\ \A n \in Areas(blocks, h) :
                          \E i \in 1 .. Len(Visits') :
                              Visits'[i] = Visit(h, n, NullPtr)
                    /\ op'.visit_all =>
                          \A q \in LiveAddrs(blocks) :
                              blocks[q].heap = h =>
                                 \E i \in 1 .. Len(Visits') : Visits'[i].block = q]_vars

\* The visitor returned false at the first area of a heap with a block; the
\* walk ended there and visit_blocks returned false.
C24_Witness ==
    /\ IsVisit(op) /\ op.visit_all /\ op.visitor.stop_at = 1
    /\ Len(Visits) = 1 /\ ret = BoolResult(FALSE)
    /\ \E q \in LiveAddrs(blocks) : blocks[q].heap = op.self.heap

====
